---- MODULE Spec2Model ----
(***************************************************************************)
(* The placeholder curry of src/falt_Polyfil.ts (curry, curried and the    *)
(* continuation it returns), as a state machine over the continuations a   *)
(* caller holds.  A continuation is the closure over the `arg` array of    *)
(* the invocation of curried that returned it.                             *)
(***************************************************************************)
EXTENDS Integers, Sequences, FiniteSets, TLC

\* ---------------------------------------------------------------- bounds
\* the largest fn.length, the most arguments in one call, and the most array
\* cells the continuations the caller holds may close over together (a
\* continuation counts one cell more than its array is long)
MaxArity == 2
MaxArgs == 2
MaxCells == 6

\* ------------------------------------------------------- values and arrays
\* curry.placeholder = Symbol(): a value equal to nothing but itself, here the
\* one number that is no Value
placeholder == 0

\* what nextArg.shift() returns on an empty array
undefined == -1

\* the real values a caller passes
Value == {1, 2}
Arg == Value \cup {placeholder}

\* fn.length, the declared parameter count; -1 stands for a length no
\* declared function has
FnLengths == (-1)..MaxArity

NoFn == -2

RECURSIVE SeqsUpTo(_, _)
SeqsUpTo(S, n) ==
  IF n = 0 THEN {<<>>}
  ELSE LET shorter == SeqsUpTo(S, n - 1)
       IN shorter \cup {Append(s, x) : s \in {t \in shorter : Len(t) = n - 1}, x \in S}

ArgLists == SeqsUpTo(Arg, MaxArgs)

Min(a, b) == IF a <= b THEN a ELSE b
Max(a, b) == IF a >= b THEN a ELSE b

\* an argument list may run one past the arity
MaxLen(n) == Max(n, 0) + 1

\* Array.prototype.slice(0, end): a negative end counts from the length
slice(a, end) ==
  LET k == IF end < 0 THEN Max(Len(a) + end, 0) ELSE Min(end, Len(a))
  IN SubSeq(a, 1, k)

\* Array.prototype.includes
includes(a, x) == \E i \in 1..Len(a) : a[i] = x

\* ------------------------------------------------------ the target function
\* fn(...arg): the target is the caller's; it returns a value that depends on
\* the arguments it received, or raises
fn(received, raises) ==
  IF raises THEN [kind |-> "throw", val |-> received]
  ELSE [kind |-> "value", val |-> received]

RECURSIVE Cells(_)
Cells(cs) ==
  IF cs = {} THEN 0
  ELSE LET c == CHOOSE x \in cs : TRUE
       IN Len(c.arg) + 1 + Cells(cs \ {c})

\* ------------------------------------------------------------------ curried
\* isValid with > for >=
isValidStrict(arg, fnLength) ==
  Len(arg) > fnLength /\ ~includes(slice(arg, fnLength), placeholder)

\* isValid without the placeholder test
isValidLengthOnly(arg, fnLength) ==
  Len(arg) >= fnLength

\* isValid with the placeholder test on all of arg
isValidWhole(arg, fnLength) ==
  Len(arg) >= fnLength /\ ~includes(arg, placeholder)

\* lines 111-113
isValid(arg, fnLength) ==
  Len(arg) >= fnLength /\ ~includes(slice(arg, fnLength), placeholder)

\* the call of the target inside a try whose catch returns undefined
invokeCaught(arg, raises) ==
  LET r == fn(arg, raises)
  IN [received |-> arg, outcome |-> r,
      result |-> IF r.kind = "throw" THEN [kind |-> "value", val |-> <<undefined>>]
                 ELSE r]

\* line 117, fn(...arg): nothing around the call catches what the target raises
invoke(arg, raises) ==
  LET r == fn(arg, raises)
  IN [received |-> arg, outcome |-> r, result |-> r]

\* one invocation of curried(...arg): the target's outcome, or a continuation
\* closing over arg
curried(arg, fnLength, raises) ==
  IF isValid(arg, fnLength)
  THEN LET c == invoke(arg, raises)
       IN [arg |-> arg, invoked |-> 1, received |-> c.received,
           outcome |-> c.outcome, result |-> c.result, closes |-> FALSE]
  ELSE [arg |-> arg, invoked |-> 0, received |-> <<>>,
        outcome |-> [kind |-> "none", val |-> <<>>],
        result |-> [kind |-> "continuation", val |-> arg], closes |-> TRUE]

\* ------------------------------------------------------------- continuation
\* arg.map(item => item === curry.placeholder && nextArg.length
\*                   ? nextArg.shift() : item)
\* walked from index i on; acc is the array map is building, nextArg what the
\* shifts have left of the call's arguments
\* the map with nextArg.pop() for nextArg.shift()
RECURSIVE mapItemsPop(_, _, _, _)
mapItemsPop(arg, i, acc, nextArg) ==
  IF i > Len(arg) THEN [resultArg |-> acc, nextArg |-> nextArg]
  ELSE IF arg[i] = placeholder /\ Len(nextArg) # 0
       THEN mapItemsPop(arg, i + 1, Append(acc, nextArg[Len(nextArg)]),
                        SubSeq(nextArg, 1, Len(nextArg) - 1))
       ELSE mapItemsPop(arg, i + 1, Append(acc, arg[i]), nextArg)

\* the map without the nextArg.length test: shift() on an empty array gives
\* undefined
RECURSIVE mapItemsNoLength(_, _, _, _)
mapItemsNoLength(arg, i, acc, nextArg) ==
  IF i > Len(arg) THEN [resultArg |-> acc, nextArg |-> nextArg]
  ELSE IF arg[i] = placeholder
       THEN IF Len(nextArg) # 0
            THEN mapItemsNoLength(arg, i + 1, Append(acc, Head(nextArg)), Tail(nextArg))
            ELSE mapItemsNoLength(arg, i + 1, Append(acc, undefined), nextArg)
       ELSE mapItemsNoLength(arg, i + 1, Append(acc, arg[i]), nextArg)

RECURSIVE mapItems(_, _, _, _)
mapItems(arg, i, acc, nextArg) ==
  IF i > Len(arg) THEN [resultArg |-> acc, nextArg |-> nextArg]
  ELSE IF arg[i] = placeholder /\ Len(nextArg) # 0
       THEN mapItems(arg, i + 1, Append(acc, Head(nextArg)), Tail(nextArg))
       ELSE mapItems(arg, i + 1, Append(acc, arg[i]), nextArg)

\* the replacement done in place, arg[i] = nextArg.shift()
resultArgInPlace(arg, nextArg) ==
  LET m == mapItems(arg, 1, <<>>, nextArg)
  IN [resultArg |-> m.resultArg, nextArg |-> m.nextArg, arg |-> m.resultArg]

\* the map call of line 132: a new array resultArg, nextArg shifted in place,
\* and the receiver arg, which map leaves as it was
resultArgOf(arg, nextArg) ==
  LET m == mapItems(arg, 1, <<>>, nextArg)
  IN [resultArg |-> m.resultArg, nextArg |-> m.nextArg, arg |-> arg]

\* the spread without the arguments the map left over
spreadResultOnly(resultArg, nextArg) == resultArg

\* the spread with the call's own arguments first
spreadSwapped(resultArg, nextArg) == nextArg \o resultArg

\* line 144, the arguments of the recursive call
spread(resultArg, nextArg) == resultArg \o nextArg

\* a continuation that empties its array when the target raises
continuationDiscarding(arg, nextArg, fnLength, raises) ==
  LET m == resultArgOf(arg, nextArg)
      c == curried(spread(m.resultArg, m.nextArg), fnLength, raises)
  IN [call |-> c, closed |-> IF c.result.kind = "throw" THEN <<>> ELSE m.arg]

\* one call of the continuation closing over arg; closed is that closure's
\* array once the call is over
continuation(arg, nextArg, fnLength, raises) ==
  LET m == resultArgOf(arg, nextArg)
      c == curried(spread(m.resultArg, m.nextArg), fnLength, raises)
  IN [call |-> c, closed |-> m.arg]

\* ------------------------------------------------------------- construction
\* a construction that refuses a negative length
curryChecked(n) ==
  IF n < 0
  THEN [entry |-> FALSE, fnLength |-> n,
        result |-> [kind |-> "throw", val |-> <<>>]]
  ELSE [entry |-> TRUE, fnLength |-> n,
        result |-> [kind |-> "function", val |-> <<>>]]

\* curry(fn) returns curried; fn.length is not read before the first call
curry(n) == [entry |-> TRUE, fnLength |-> n,
             result |-> [kind |-> "function", val |-> <<>>]]

\* ================================================================ throttle
\* src/throttel.ts.  A handler (a call of the throttled function, a timer
\* callback) runs to completion before the next one starts; func returns
\* normally and does not call the throttled function.

\* the longest wait given to throttle(func, wait), in ticks of the clock
MaxWait == 2

\* the receivers the throttled function is called on
This == {"a", "b"}

\* the argument arrays of its calls: none or one argument, as in the calls of
\* the example (lines 23-28)
ThrottleArgs == SeqsUpTo(Value, 1)

\* lastArg: null is <<>>, an argument array arg is <<arg>>
null == <<>>

\* lines 60-76, runTimeout(): setTimeout(callback, wait); the callback is an
\* arrow function, its `this` the one of the call that ran line 60
runTimeout(timers, self, wait) == Append(timers, [left |-> wait, self |-> self])

\* the returned function with waiting never set
throttledNoWaiting(s, self, arg, wait) ==
  IF ~s.waiting
  THEN [waiting |-> FALSE, lastArg |-> s.lastArg,
        timers |-> runTimeout(s.timers, self, wait),
        ran |-> <<[self |-> self, arg |-> arg]>>]
  ELSE [waiting |-> s.waiting, lastArg |-> <<arg>>, timers |-> s.timers, ran |-> <<>>]

\* the returned function keeping the first arguments of a waiting period
throttledKeepFirst(s, self, arg, wait) ==
  IF ~s.waiting
  THEN [waiting |-> TRUE, lastArg |-> s.lastArg,
        timers |-> runTimeout(s.timers, self, wait),
        ran |-> <<[self |-> self, arg |-> arg]>>]
  ELSE [waiting |-> s.waiting,
        lastArg |-> IF s.lastArg = null THEN <<arg>> ELSE s.lastArg,
        timers |-> s.timers, ran |-> <<>>]

\* lines 44-85, the returned function called on self with arg; s is the
\* closure's state and the timers pending, ran the executions of func
throttled(s, self, arg, wait) ==
  IF ~s.waiting
  THEN [waiting |-> TRUE, lastArg |-> s.lastArg,
        timers |-> runTimeout(s.timers, self, wait),
        ran |-> <<[self |-> self, arg |-> arg]>>]
  ELSE [waiting |-> s.waiting, lastArg |-> <<arg>>, timers |-> s.timers, ran |-> <<>>]

\* timers without its i-th
Without(timers, i) ==
  SubSeq(timers, 1, i - 1) \o SubSeq(timers, i + 1, Len(timers))

\* the callback without the runTimeout() of line 72
timeoutNoRearm(s, i, wait) ==
  LET rest == Without(s.timers, i)
  IN IF s.lastArg # null
     THEN [waiting |-> TRUE, lastArg |-> null, timers |-> rest,
           ran |-> <<[self |-> s.timers[i].self, arg |-> s.lastArg[1]]>>]
     ELSE [waiting |-> FALSE, lastArg |-> s.lastArg, timers |-> rest, ran |-> <<>>]

\* the callback without the lastArg = null of line 70
timeoutKeepsLastArg(s, i, wait) ==
  LET self == s.timers[i].self
      rest == Without(s.timers, i)
  IN IF s.lastArg # null
     THEN [waiting |-> TRUE, lastArg |-> s.lastArg,
           timers |-> runTimeout(rest, self, wait),
           ran |-> <<[self |-> self, arg |-> s.lastArg[1]]>>]
     ELSE [waiting |-> FALSE, lastArg |-> s.lastArg, timers |-> rest, ran |-> <<>>]

\* lines 61-75, the callback of the i-th pending timer
timeout(s, i, wait) ==
  LET self == s.timers[i].self
      rest == Without(s.timers, i)
  IN IF s.lastArg # null
     THEN [waiting |-> TRUE, lastArg |-> null,
           timers |-> runTimeout(rest, self, wait),
           ran |-> <<[self |-> self, arg |-> s.lastArg[1]]>>]
     ELSE [waiting |-> FALSE, lastArg |-> s.lastArg, timers |-> rest, ran |-> <<>>]

VARIABLES
  wait,       \* the wait given to throttle(func, wait)
  waiting,    \* line 36
  lastArg,    \* line 39
  timers,     \* the timers pending: time left and the `this` of the callback
  elapsed,    \* time since func was last executed, up to wait
  expired,    \* whether a timer has expired since func was last executed
  executed,   \* whether func has been executed at all
  recent,     \* the latest call made in the current waiting period, if any
  stopped,    \* the caller has made its last call
  tlast       \* the handler that ran last and what it did

throttleVars ==
  <<wait, waiting, lastArg, timers, elapsed, expired, executed, recent, stopped,
    tlast>>

NoHandler == [op |-> "none", self |-> "none", arg |-> <<>>, ran |-> <<>>,
              wasWaiting |-> FALSE, gap |-> 0, separated |-> FALSE,
              first |-> FALSE, recent |-> <<>>]

\* const throttled = throttle(func, wait)
throttle(w) ==
  /\ wait = w
  /\ waiting = FALSE
  /\ lastArg = null
  /\ timers = <<>>
  /\ elapsed = 0
  /\ expired = FALSE
  /\ executed = FALSE
  /\ recent = <<>>
  /\ stopped = FALSE
  /\ tlast = NoHandler

\* the throttle of a program that makes none
NoThrottle == throttle(0)

\* ============================================================ simple curry
\* src/unnamed/part_000
VARIABLES
  sFn,        \* the function given to curry, NoTarget before curry(fn)
  sHeld,      \* the functions the caller holds: arg is the array one closes
              \* over, given the arguments of the calls that led to it
  sLast       \* the call in progress and what it gives its caller

simpleVars == <<sFn, sHeld, sLast>>

\* sum declares three parameters
SumLength == 3

\* the arguments of the demo, lines 49-51
SimpleValue == 1..SumLength
SimpleArgLists == SeqsUpTo(SimpleValue, SumLength)

NoTarget == [name |-> "none", length |-> NoFn]

\* the functions a caller gives to curry: sum, and functions of fewer
\* parameters that return a value depending on what they received
Targets ==
  {[name |-> "sum", length |-> SumLength]}
    \cup {[name |-> "fn", length |-> n] : n \in 0..MaxArity}

\* function sum(a, b, c)
sum(a, b, c) == a + b + c

\* fn(...arg): parameters beyond the declared ones are dropped
applyFn(f, arg) ==
  IF f.name = "sum" THEN <<sum(arg[1], arg[2], arg[3])>> ELSE arg

\* simpleCurried with > for >=
simpleCurriedStrict(f, arg) ==
  IF Len(arg) > f.length
  THEN [arg |-> arg, invoked |-> 1, received |-> arg, closes |-> FALSE,
        result |-> [kind |-> "value", val |-> applyFn(f, arg)]]
  ELSE [arg |-> arg, invoked |-> 0, received |-> <<>>, closes |-> TRUE,
        result |-> [kind |-> "function", val |-> <<>>]]

\* function curried(...arg), lines 29-38
simpleCurried(f, arg) ==
  IF Len(arg) >= f.length
  THEN [arg |-> arg, invoked |-> 1, received |-> arg, closes |-> FALSE,
        result |-> [kind |-> "value", val |-> applyFn(f, arg)]]
  ELSE [arg |-> arg, invoked |-> 0, received |-> <<>>, closes |-> TRUE,
        result |-> [kind |-> "function", val |-> <<>>]]

\* simpleContinuation passing the new arguments first
simpleContinuationSwapped(f, arg, nextArg) == simpleCurried(f, nextArg \o arg)

\* (...nextArg) => curried(...arg, ...nextArg), line 37
simpleContinuation(f, arg, nextArg) == simpleCurried(f, arg \o nextArg)

SimpleIdle == [op |-> "none", on |-> "none", newArgs |-> <<>>, pending |-> <<>>,
               given |-> <<>>, combined |-> <<>>, invoked |-> 0,
               received |-> <<>>, result |-> [kind |-> "none", val |-> <<>>]]

\* the program before curry(fn), and a program that never calls it
NoSimple ==
  /\ sFn = NoTarget
  /\ sHeld = {}
  /\ sLast = SimpleIdle

\* ==================================================================== flat
\* src/falt_Polyfil.ts, lines 1-77
VARIABLES
  fArr,       \* the array given to flat, as it is now
  fGiven,     \* the array as the caller built it
  fDepth,     \* the depth given to flat
  fOut,       \* what flat returned
  fPc         \* "none" in a program without flat, "start" before the call of
              \* flat, "done" after it

flatVars == <<fArr, fGiven, fDepth, fOut, fPc>>

\* the size of the arrays given to flat: every element counts, a nested
\* array for one more than its elements
MaxNodes == 4
\* the largest whole depth given to flat
MaxDepth == 3

\* depth is a number, not only a whole one: depths are counted in halves, so
\* that Unit stands for the 1 of line 47 and 1 for a depth of 0.5
Unit == 2

\* a number above every depth counted in halves
Infinity == (MaxDepth + 1) * Unit + 1

FlatDepths == ((-Unit)..(MaxDepth * Unit)) \cup {Infinity}

\* what an index of an array holds: a number, undefined, another array, or
\* nothing at all (an empty slot, for which `i in currentArr` is false)
Num(n) == [t |-> "num", n |-> n, v |-> <<>>]
Undef == [t |-> "undef", n |-> 0, v |-> <<>>]
Hole == [t |-> "hole", n |-> 0, v |-> <<>>]
Arr(a) == [t |-> "arr", n |-> 0, v |-> a]

Leaves == {Num(n) : n \in Value} \cup {Undef, Hole}

RECURSIVE ArraysOf(_)
RECURSIVE Elems(_)
\* the arrays of exactly n nodes
ArraysOf(n) ==
  IF n = 0 THEN {<<>>}
  ELSE UNION {{<<e>> \o rest : e \in Elems(s), rest \in ArraysOf(n - s)} : s \in 1..n}

\* the elements of exactly s nodes
Elems(s) ==
  (IF s = 1 THEN Leaves ELSE {}) \cup {Arr(a) : a \in ArraysOf(s - 1)}

FlatArrays == UNION {ArraysOf(n) : n \in 0..MaxNodes}

\* Array.isArray(value)
isArray(value) == value.t = "arr"

\* descends with >= for >
descendsInclusive(value, currentDepth) == isArray(value) /\ currentDepth >= 0

\* Array.isArray(value) && currentDepth > 0, line 43
descends(value, currentDepth) == isArray(value) /\ currentDepth > 0

\* currentDepth === Infinity ? Infinity : currentDepth - 1, line 47
nextDepth(currentDepth) ==
  IF currentDepth = Infinity THEN Infinity ELSE currentDepth - Unit

\* skips not looking for empty slots
skipsNothing(value) == FALSE

\* !(i in currentArr), line 38
skips(value) == value.t = "hole"

\* the for loop of flattenHelper from index i on (i counts from 1), lines
\* 35-56: result is the array of line 26 as the loop found it
RECURSIVE flattenFrom(_, _, _, _)
flattenFrom(result, currentArr, currentDepth, i) ==
  IF ~(i <= Len(currentArr)) THEN result
  ELSE LET value == currentArr[i]
           after ==
             IF skips(value) THEN result
             ELSE IF descends(value, currentDepth)
                  THEN flattenFrom(result, value.v, nextDepth(currentDepth), 1)
                  ELSE Append(result, value)
       IN flattenFrom(after, currentArr, currentDepth, i + 1)

\* function flattenHelper(currentArr, currentDepth)
flattenHelper(result, currentArr, currentDepth) ==
  flattenFrom(result, currentArr, currentDepth, 1)

\* function flat(arr, depth): the array returned, and arr as the call left it
flat(arr, depth) ==
  [result |-> flattenHelper(<<>>, arr, depth), arr |-> arr]

NoFlat ==
  /\ fArr = <<>>
  /\ fGiven = <<>>
  /\ fDepth = 0
  /\ fOut = <<>>
  /\ fPc = "none"

\* ======================================================== placeholder curry
\* -------------------------------------------------------------------- state
VARIABLES
  fnLength,   \* fn.length of the target given to curry, NoFn before curry(fn)
  entry,      \* whether the caller holds the entry point curry returned
  conts,      \* the continuations the caller holds: arg is the array one closes
              \* over, given the arguments of the calls that led to it, in
              \* the order given (Tainted once one of them was the placeholder)
  threw,      \* the continuation whose latest call ended in the target raising
  last        \* the operation in progress and what it gives its caller

curryVars == <<fnLength, entry, conts, threw, last>>

vars == <<curryVars, throttleVars, simpleVars, flatVars>>

NoResult == [kind |-> "none", val |-> <<>>]

Tainted == <<placeholder>>

Idle == [op |-> "none", on |-> "none", given |-> <<>>, newArgs |-> <<>>,
         pending |-> <<>>, combined |-> <<>>, invoked |-> 0, received |-> <<>>,
         outcome |-> NoResult, result |-> NoResult, again |-> FALSE]

Init ==
  /\ fnLength = NoFn
  /\ entry = FALSE
  /\ conts = {}
  /\ threw = {}
  /\ last = Idle
  /\ NoThrottle /\ NoSimple /\ NoFlat

\* const curriedJoin = curry(join)
Curry(n) ==
  /\ fnLength = NoFn
  /\ last.op = "none"
  /\ LET c == curry(n)
     IN /\ fnLength' = c.fnLength
        /\ entry' = c.entry
        /\ last' = [Idle EXCEPT !.op = "curry", !.result = c.result]
  /\ UNCHANGED <<conts, threw, throttleVars, simpleVars, flatVars>>

\* what a call that produced c leaves behind.  on is the callee, "entry" or
\* "continuation", and from the continuation called; was is what the calls
\* up to this one were given; cs is conts as the call left the arrays that
\* were there before it
Returned(on, from, was, nextArg, pending, c, cs) ==
  LET now == IF was = Tainted \/ includes(nextArg, placeholder) THEN Tainted
             ELSE was \o nextArg
      new == [arg |-> c.arg, given |-> now]
  IN /\ Len(c.arg) <= MaxLen(fnLength)
     /\ c.closes => Cells(cs \cup {new}) <= MaxCells
     /\ conts' = IF c.closes THEN cs \cup {new} ELSE cs
     /\ threw' = IF c.result.kind = "throw" THEN from ELSE threw \ from
     /\ last' = [op |-> "call", on |-> on, given |-> now, newArgs |-> nextArg,
                 pending |-> pending, combined |-> c.arg, invoked |-> c.invoked,
                 received |-> c.received, outcome |-> c.outcome, result |-> c.result,
                 again |-> from # {} /\ from \subseteq threw]

\* curriedJoin(...nextArg): the entry point is curried itself
CallEntry(nextArg) ==
  /\ entry
  /\ last.op # "call"
  /\ \E raises \in BOOLEAN :
       LET c == curried(nextArg, fnLength, raises)
       IN /\ raises => c.invoked = 1
          /\ Returned("entry", {}, <<>>, nextArg, <<>>, c, conts)
  /\ UNCHANGED <<fnLength, entry, throttleVars, simpleVars, flatVars>>

\* k(...nextArg) for a continuation k the caller holds
CallCont(k, nextArg) ==
  /\ k \in conts
  /\ last.op # "call"
  /\ \E raises \in BOOLEAN :
       LET r == continuation(k.arg, nextArg, fnLength, raises)
       IN /\ raises => r.call.invoked = 1
          /\ Returned("continuation", {k}, k.given, nextArg, k.arg, r.call,
                      (conts \ {k}) \cup {[k EXCEPT !.arg = r.closed]})
  /\ UNCHANGED <<fnLength, entry, throttleVars, simpleVars, flatVars>>

\* the call expression has its value, and the caller goes on to its next call
\* (line 169 chains three of them)
Resume ==
  /\ last.op # "none"
  /\ last' = Idle
  /\ UNCHANGED <<fnLength, entry, conts, threw, throttleVars, simpleVars, flatVars>>

Next ==
  \/ \E n \in FnLengths : Curry(n)
  \/ \E nextArg \in ArgLists : CallEntry(nextArg)
  \/ \E k \in conts, nextArg \in ArgLists : CallCont(k, nextArg)
  \/ Resume

Spec == Init /\ [][Next]_vars

\* the placeholder curry of a program that does not use it
NoCurry ==
  /\ fnLength = NoFn
  /\ entry = FALSE
  /\ conts = {}
  /\ threw = {}
  /\ last = Idle

\* ------------------------------------------------------- throttle: actions
ThrottleInit ==
  /\ \E w \in 1..MaxWait : throttle(w)
  /\ NoCurry /\ NoSimple /\ NoFlat

ThrottleState == [waiting |-> waiting, lastArg |-> lastArg, timers |-> timers]

\* what a handler that left s behind changes, and what it is noted for
Handled(s, note) ==
  /\ waiting' = s.waiting
  /\ lastArg' = s.lastArg
  /\ timers' = s.timers
  /\ elapsed' = IF s.ran # <<>> THEN 0 ELSE elapsed
  /\ executed' = (executed \/ s.ran # <<>>)
  /\ tlast' = [note EXCEPT !.ran = s.ran, !.wasWaiting = waiting, !.gap = elapsed,
                           !.first = ~executed, !.recent = recent]

\* throttled.call(self, ...arg)
ThrottledCall(self, arg) ==
  /\ ~stopped
  /\ LET s == throttled(ThrottleState, self, arg, wait)
     IN /\ Handled(s, [NoHandler EXCEPT !.op = "call", !.self = self, !.arg = arg,
                                        !.separated = expired])
        /\ expired' = IF s.ran # <<>> THEN FALSE ELSE expired
        /\ recent' = IF waiting THEN <<[self |-> self, arg |-> arg]>> ELSE recent
  /\ UNCHANGED <<wait, stopped, curryVars, simpleVars, flatVars>>

\* the i-th pending timer is due and its callback runs
Timeout(i) ==
  /\ i \in DOMAIN timers
  /\ timers[i].left = 0
  /\ LET s == timeout(ThrottleState, i, wait)
     IN /\ Handled(s, [NoHandler EXCEPT !.op = "timeout", !.self = timers[i].self,
                                        !.separated = TRUE])
        /\ expired' = (s.ran = <<>>)
        /\ recent' = <<>>
  /\ UNCHANGED <<wait, stopped, curryVars, simpleVars, flatVars>>

\* one tick of the clock
Tick ==
  /\ timers' = [i \in DOMAIN timers |->
                  [timers[i] EXCEPT !.left = Max(timers[i].left - 1, 0)]]
  /\ elapsed' = Min(elapsed + 1, wait)
  /\ tlast' = [NoHandler EXCEPT !.op = "tick"]
  /\ UNCHANGED <<wait, waiting, lastArg, expired, executed, recent, stopped,
                 curryVars, simpleVars, flatVars>>

\* the caller has made its last call
Stop ==
  /\ ~stopped
  /\ stopped' = TRUE
  /\ tlast' = [NoHandler EXCEPT !.op = "stop"]
  /\ UNCHANGED <<wait, waiting, lastArg, timers, elapsed, expired, executed, recent,
                 curryVars, simpleVars, flatVars>>

ThrottleNext ==
  \/ \E self \in This, arg \in ThrottleArgs : ThrottledCall(self, arg)
  \/ \E i \in DOMAIN timers : Timeout(i)
  \/ Tick
  \/ Stop

ThrottleSpec == ThrottleInit /\ [][ThrottleNext]_vars

\* time passes, and a timer that is due has its callback run
ThrottleFair ==
  /\ ThrottleSpec
  /\ WF_vars(Tick)
  /\ WF_vars(\E i \in DOMAIN timers : Timeout(i))

\* ---------------------------------------------------- simple curry: actions
\* const testCurry = curry(sum)
SimpleCurry(f) ==
  /\ sFn = NoTarget
  /\ sFn' = f
  /\ sLast' = [SimpleIdle EXCEPT !.op = "curry",
                                 !.result = [kind |-> "function", val |-> <<>>]]
  /\ UNCHANGED <<sHeld, curryVars, throttleVars, flatVars>>

\* what a call that produced c leaves behind; was is what the calls up to
\* this one were given
SimpleReturned(on, was, nextArg, pending, c) ==
  LET new == [arg |-> c.arg, given |-> was \o nextArg]
  IN /\ c.closes => Cells(sHeld \cup {new}) <= MaxCells
     /\ sHeld' = IF c.closes THEN sHeld \cup {new} ELSE sHeld
     /\ sLast' = [op |-> "call", on |-> on, newArgs |-> nextArg,
                  pending |-> pending, given |-> was \o nextArg,
                  combined |-> c.arg, invoked |-> c.invoked,
                  received |-> c.received, result |-> c.result]

\* testCurry(...arg)
SimpleCallEntry(nextArg) ==
  /\ sFn # NoTarget
  /\ SimpleReturned("entry", <<>>, nextArg, <<>>, simpleCurried(sFn, nextArg))
  /\ UNCHANGED <<sFn, curryVars, throttleVars, flatVars>>

\* h(...nextArg) for a function h an earlier call returned
SimpleCallHeld(h, nextArg) ==
  /\ h \in sHeld
  /\ SimpleReturned("held", h.given, nextArg, h.arg,
                    simpleContinuation(sFn, h.arg, nextArg))
  /\ UNCHANGED <<sFn, curryVars, throttleVars, flatVars>>

SimpleInit ==
  /\ sFn = NoTarget
  /\ sHeld = {}
  /\ sLast = SimpleIdle
  /\ NoCurry /\ NoThrottle /\ NoFlat

SimpleNext ==
  \/ \E f \in Targets : SimpleCurry(f)
  \/ \E nextArg \in SimpleArgLists : SimpleCallEntry(nextArg)
  \/ \E h \in sHeld, nextArg \in SimpleArgLists : SimpleCallHeld(h, nextArg)

SimpleSpec == SimpleInit /\ [][SimpleNext]_vars

\* ------------------------------------------------------------ flat: actions
\* the caller has built an array and chosen a depth
FlatInit ==
  /\ fArr \in FlatArrays
  /\ fGiven = fArr
  /\ fDepth \in FlatDepths
  /\ fOut = <<>>
  /\ fPc = "start"
  /\ NoCurry /\ NoThrottle /\ NoSimple

\* const output = flat(arr, depth)
Flat ==
  /\ fPc = "start"
  /\ LET r == flat(fArr, fDepth)
     IN /\ fOut' = r.result
        /\ fArr' = r.arr
  /\ fPc' = "done"
  /\ UNCHANGED <<fGiven, fDepth, curryVars, throttleVars, simpleVars>>

FlatNext == Flat

FlatSpec == FlatInit /\ [][FlatNext]_vars

\* ------------------------------------------------------------------- claims
IsCall == last.op = "call"

\* the slots of a list that hold the placeholder, and the rank of slot i
\* among them
PlaceholderSlots(P) == {i \in 1..Len(P) : P[i] = placeholder}

Rank(P, i) == Cardinality({j \in PlaceholderSlots(P) : j <= i})

\* the merge rule as the specification words it
Merged(P, N) ==
  LET consumed == Min(Cardinality(PlaceholderSlots(P)), Len(N))
      filled == [i \in 1..Len(P) |->
                   IF P[i] = placeholder /\ Rank(P, i) <= Len(N)
                   THEN N[Rank(P, i)] ELSE P[i]]
  IN IF Len(P) = 0 THEN N ELSE filled \o SubSeq(N, consumed + 1, Len(N))

\* readiness as the specification words it, for an arity n >= 0
Ready(c, n) == Len(c) >= n /\ \A i \in 1..n : c[i] # placeholder

\* C1: the list a call combines is the pending list with its placeholder slots
\* filled left to right by the call's arguments in order (a placeholder among
\* them is a value like any other), followed by the arguments left over; the
\* other slots keep value and position.  [_, _, 3, 4] called with (1, _)
\* gives [1, _, 3, 4].
C1_MergeRule ==
  /\ IsCall => last.combined = Merged(last.pending, last.newArgs)
  /\ LET m == resultArgOf(<<placeholder, placeholder, 3, 4>>, <<1, placeholder>>)
     IN spread(m.resultArg, m.nextArg) = <<1, placeholder, 3, 4>>

\* a call that put a placeholder of its own into a placeholder slot
C1_Witness ==
  /\ IsCall /\ last.on = "continuation"
  /\ Cardinality(PlaceholderSlots(last.pending)) = 2
  /\ last.newArgs = <<1, placeholder>>
  /\ PlaceholderSlots(last.combined) # {}

\* C2: a call invokes the target if and only if the combined list has at
\* least arity elements and no placeholder among its first arity; when it
\* does, the target runs once and its outcome is the call's; when it does not,
\* the call returns a continuation whose pending list is the combined list.
C2_Readiness ==
  IsCall /\ fnLength >= 0 =>
    /\ last.invoked = 1 <=> Ready(last.combined, fnLength)
    /\ last.invoked = 1 => last.result = last.outcome /\ last.outcome.kind # "none"
    /\ last.invoked = 0 =>
         /\ last.result = [kind |-> "continuation", val |-> last.combined]
         /\ \E c \in conts : c.arg = last.combined

\* a call that had arity elements and more, and a placeholder among the
\* first arity of them, and so returned a continuation
C2_Witness ==
  /\ IsCall /\ fnLength = 2
  /\ Len(last.combined) > fnLength
  /\ last.invoked = 0
  /\ last.result.kind = "continuation"

\* C3: arity real arguments in one call on the entry point give the target's
\* outcome on exactly these arguments, and no continuation.
C3_FullApplication ==
  /\ IsCall /\ last.on = "entry" /\ fnLength >= 0
  /\ Len(last.newArgs) = fnLength /\ ~includes(last.newArgs, placeholder)
  => /\ last.invoked = 1
     /\ last.received = last.newArgs
     /\ last.result = last.outcome
     /\ last.outcome.val = last.newArgs
     /\ last.result.kind \in {"value", "throw"}

\* the entry point of a target of arity 2 called with two distinct values
C3_Witness ==
  /\ IsCall /\ last.on = "entry" /\ fnLength = 2
  /\ last.newArgs = <<2, 1>>
  /\ last.result = [kind |-> "value", val |-> <<2, 1>>]

\* C4: real arguments a1..an (n the arity) given in consecutive non-empty
\* groups, one group a call: every call before the n-th argument returns a
\* continuation, and the call that brings the n-th invokes the target on
\* a1..an in the order given, whatever the grouping.
C4_SplitApplication ==
  /\ IsCall /\ fnLength >= 0 /\ last.given # Tainted =>
       /\ last.combined = last.given
       /\ Len(last.given) < fnLength =>
            last.invoked = 0 /\ last.result.kind = "continuation"
       /\ Len(last.given) >= fnLength =>
            /\ last.invoked = 1
            /\ last.received = last.given
            /\ last.result = last.outcome /\ last.outcome.val = last.given
  /\ \A c \in conts : fnLength >= 0 /\ c.given # Tainted =>
       c.arg = c.given /\ Len(c.given) < fnLength

\* two calls of one real value each, on a target of arity 2
C4_Witness ==
  /\ IsCall /\ last.on = "continuation" /\ fnLength = 2
  /\ last.pending = <<1>> /\ last.newArgs = <<2>>
  /\ last.given = <<1, 2>>
  /\ last.result = [kind |-> "value", val |-> <<1, 2>>]

\* C5: an invocation hands the target the whole combined list in order, the
\* elements from index arity on included; a placeholder among those neither
\* delays the invocation nor is removed, and a list longer than arity is
\* neither refused nor cut.
C5_ArityWindow ==
  IsCall /\ fnLength >= 0 =>
    /\ last.invoked = 1 => last.received = last.combined /\ last.outcome.val = last.combined
    /\ (Len(last.combined) >= fnLength
         /\ ~includes(SubSeq(last.combined, 1, fnLength), placeholder))
       => last.invoked = 1

\* arity 2 and the combined list [1, 2, placeholder]
C5_Witness ==
  /\ IsCall /\ fnLength = 2
  /\ last.combined = <<1, 2, placeholder>>
  /\ last.invoked = 1
  /\ last.received = <<1, 2, placeholder>>

\* C6: a call changes the array of no continuation held before it, the one it
\* is made on included, and what it combines is the merge of its arguments
\* with that continuation's array as it has been since the continuation was
\* returned; so a continuation called twice, or two chains called in turn,
\* give what each call gives alone.
C6_NoSharedState ==
  [][/\ \A c \in conts : c \in conts'
     /\ (last'.op = "call" /\ last'.on = "continuation") =>
          /\ \E c \in conts \cap conts' : c.arg = last'.pending
          /\ last'.combined = Merged(last'.pending, last'.newArgs)]_vars

\* a continuation called a second time, with arguments that fill one of its
\* placeholder slots, still held as it was, beside another continuation
C6_Witness ==
  /\ IsCall /\ last.on = "continuation" /\ last.again
  /\ includes(last.pending, placeholder)
  /\ last.combined # last.pending \o last.newArgs
  /\ \E c \in conts : c.arg = last.pending
  /\ Cardinality(conts) >= 2

\* C7: a call raises only what the target raised in it, unchanged, and after
\* that single invocation; a call that does not invoke the target raises
\* nothing, and neither does construction.
C7_FailurePropagation ==
  /\ IsCall =>
       /\ last.invoked = 1 => last.result = last.outcome
       /\ last.invoked = 0 => last.result.kind = "continuation"
       /\ last.outcome.kind = "throw" =>
            last.invoked = 1 /\ last.result = [kind |-> "throw", val |-> last.received]
  /\ last.op = "curry" => last.result.kind = "function"

\* a call on a continuation in which the target raised
C7_Witness ==
  /\ IsCall /\ last.on = "continuation"
  /\ last.invoked = 1
  /\ last.result.kind = "throw"

\* C8 as the specification states it: construction with an invalid arity is
\* refused there and then, and gives no entry point.
C8_RejectedAtConstruction ==
  last.op = "curry" /\ fnLength < 0 => ~entry /\ last.result.kind = "throw"

\* C8 as the code has it: curry(fn) looks at nothing; whatever fn.length is,
\* a negative one included, construction raises nothing and returns the entry
\* point, and fn.length is read by the calls.
C8_ConstructionAccepts ==
  /\ last.op = "curry" => entry /\ last.result.kind = "function"
  /\ fnLength # NoFn => entry
  /\ (IsCall /\ fnLength < 0 /\ Len(last.combined) <= 1) => last.invoked = 1

\* the entry point of a target of length -1, just constructed
C8_Witness ==
  /\ last.op = "curry"
  /\ fnLength = -1
  /\ entry

\* C9: a call with no arguments is accepted; on a continuation it does not
\* invoke the target and returns a continuation with the pending list of the
\* one called; it invokes the target only on the entry point of a target of
\* arity zero, and there it does.
C9_ZeroArguments ==
  IsCall /\ last.newArgs = <<>> =>
    /\ last.result.kind # "throw" \/ last.invoked = 1
    /\ last.on = "continuation" =>
         /\ last.invoked = 0
         /\ last.result = [kind |-> "continuation", val |-> last.pending]
         /\ \E c \in conts : c.arg = last.pending
    /\ fnLength >= 0 =>
         (last.invoked = 1 <=> last.on = "entry" /\ fnLength = 0)

\* a call with no arguments on a continuation that waits for its first slot
C9_Witness ==
  /\ IsCall /\ last.on = "continuation"
  /\ last.newArgs = <<>>
  /\ last.pending = <<placeholder, 1>>
  /\ last.result.kind = "continuation"

\* C10 as the specification states it: once the target has raised in a call
\* on a continuation, no call on that continuation invokes the target.
C10_NoRetry ==
  IsCall /\ last.again => last.invoked = 0

\* C10 as the code has it: a call in which the target raises returns no
\* continuation and leaves every continuation held as it was; the one it was
\* made on can be called again, and that call combines and decides as any
\* other does, invoking the target when the combined list is ready.
C10_ChainSurvives ==
  [][/\ (last'.op = "call" /\ last'.result.kind = "throw") => conts' = conts
     /\ (last'.op = "call" /\ last'.again) =>
          /\ \E c \in conts : c.arg = last'.pending
          /\ last'.combined = Merged(last'.pending, last'.newArgs)
          /\ fnLength >= 0 =>
               (last'.invoked = 1 <=> Ready(last'.combined, fnLength))]_vars

\* the call after the one that raised, on the same continuation, returning
\* the target's value
C10_Witness ==
  /\ IsCall /\ last.again
  /\ last.invoked = 1
  /\ last.result.kind = "value"
  /\ \E c \in conts : c.arg = last.pending

\* ------------------------------------------------------- throttle: claims
ThrottleIdle == ~waiting /\ lastArg = null /\ timers = <<>>

C13_ThisPreserved ==
  /\ (tlast.op = "call" /\ tlast.ran # <<>>) => tlast.ran[1].self = tlast.self
  /\ (tlast.op = "timeout" /\ tlast.ran # <<>>) =>
       tlast.ran[1].self = tlast.recent[1].self

\* C17: between handlers at most one timer is pending, waiting says whether
\* one is, and lastArg is null unless waiting.
C17_StateInvariant ==
  /\ Len(timers) <= 1
  /\ waiting <=> Len(timers) = 1
  /\ lastArg # null => waiting

\* the throttle waits again after the end of a wait ran func
C17_Witness ==
  /\ tlast.op = "timeout"
  /\ tlast.ran # <<>>
  /\ waiting /\ Len(timers) = 1 /\ lastArg = null

C14_SimpleCurry ==
  /\ \A h \in sHeld : h.arg = h.given /\ Len(h.given) < sFn.length
  /\ sLast.op = "call" =>
       /\ sLast.invoked = 1 <=> Len(sLast.given) >= sFn.length
       /\ sLast.invoked = 0 =>
            /\ sLast.result.kind = "function"
            /\ [arg |-> sLast.given, given |-> sLast.given] \in sHeld
       /\ sLast.invoked = 1 =>
            /\ sLast.received = sLast.given
            /\ sLast.result.kind = "value"
            /\ sFn.name = "fn" => sLast.result.val = sLast.given
            /\ sFn.name = "sum" =>
                 sLast.result.val =
                   <<sLast.given[1] + sLast.given[2] + sLast.given[3]>>
            /\ (sFn.name = "sum" /\ SubSeq(sLast.given, 1, 3) = <<1, 2, 3>>) =>
                 sLast.result.val = <<6>>

\* testCurry(1)(2)(3) has returned 6: the function testCurry(1) returned is
\* held, and the one testCurry(1)(2) returned was called with 3
C14_Witness ==
  /\ sFn.name = "sum"
  /\ [arg |-> <<1>>, given |-> <<1>>] \in sHeld
  /\ sLast.op = "call" /\ sLast.on = "held"
  /\ sLast.pending = <<1, 2>> /\ sLast.newArgs = <<3>>
  /\ sLast.invoked = 1 /\ sLast.result.val = <<6>>

\* ------------------------------------------------------------------ C15
\* an array met at nesting level `level` (1 for the arrays that are elements
\* of arr) is within depth
WithinDepth(level, depth) == depth = Infinity \/ level * Unit <= depth

\* the elements of a in order, empty slots left out, every array within depth
\* replaced by its own elements treated the same way one level further down
RECURSIVE Flattened(_, _, _)
Flattened(a, level, depth) ==
  IF a = <<>> THEN <<>>
  ELSE LET e == Head(a)
           here == IF e.t = "hole" THEN <<>>
                   ELSE IF e.t = "arr" /\ WithinDepth(level, depth)
                        THEN Flattened(e.v, level + 1, depth)
                        ELSE <<e>>
       IN here \o Flattened(Tail(a), level, depth)

\* C15: flat(arr, depth) returns the elements of arr in left-to-right order
\* with every nested array at nesting level <= depth replaced by its own
\* elements and deeper arrays kept as single elements; empty slots of the
\* arrays walked are skipped, explicit undefined values are kept, and arr is
\* not modified.
C15_Flat ==
  fPc = "done" => fOut = Flattened(fGiven, 1, fDepth) /\ fArr = fGiven

\* the same for the depths that are whole numbers or Infinity
FlatWholeDepths ==
  (fPc = "done" /\ (fDepth = Infinity \/ fDepth % Unit = 0)) =>
    fOut = Flattened(fGiven, 1, fDepth) /\ fArr = fGiven

\* flat([1, [2]], 0.5) has returned [1, 2]
FlatHalfDepth ==
  /\ fPc = "done"
  /\ fDepth = 1
  /\ fGiven = <<Num(1), Arr(<<Num(2)>>)>>
  /\ fOut = <<Num(1), Num(2)>>

\* ------------------------------------------------------------------ C16
\* the slots below the arity at which a list has no element or holds the
\* placeholder
Deficit(P, n) ==
  Cardinality({i \in 1..n : i > Len(P) \/ P[i] = placeholder})

\* a call with at least one argument, none of them the placeholder, on a
\* continuation whose pending list has a deficit of at least one
FedCall ==
  /\ IsCall
  /\ last.on = "continuation"
  /\ fnLength >= 0
  /\ Len(last.newArgs) >= 1
  /\ ~includes(last.newArgs, placeholder)
  /\ Deficit(last.pending, fnLength) >= 1

\* C16: a call with k >= 1 arguments, none a placeholder, on a continuation
\* of deficit d >= 1 combines a list of deficit d - min(k, d); at deficit 0
\* the call invokes the target, above it the call returns a continuation that
\* holds the combined list, so d such calls at most reach the target.
C16_Progress ==
  FedCall =>
    LET d == Deficit(last.pending, fnLength)
        k == Len(last.newArgs)
        left == Deficit(last.combined, fnLength)
    IN /\ left = d - Min(k, d)
       /\ left = 0 <=> last.invoked = 1
       /\ left > 0 =>
            /\ last.result = [kind |-> "continuation", val |-> last.combined]
            /\ \E c \in conts : c.arg = last.combined

\* a call with more arguments than the deficit: [_, 1] called with (2, 1) at
\* arity 2 fills the placeholder slot, appends the rest and invokes the target,
\* while an earlier fed call left a continuation of deficit 1 behind
C16_Witness ==
  /\ FedCall
  /\ fnLength = 2
  /\ last.pending = <<placeholder, 1>>
  /\ last.newArgs = <<2, 1>>
  /\ last.combined = <<2, 1, 1>>
  /\ last.invoked = 1
  /\ \E c \in conts : c.given = <<1>> /\ Deficit(c.arg, fnLength) = 1
====
